---- MODULE Spec2Model ----
(***************************************************************************)
(* A model of the vega P&L risk engine (src/vega_risk_engine.py) and of    *)
(* the surface store of its server (src/server.py).                        *)
(*                                                                         *)
(* Number representation.  The engine computes in floating point; the      *)
(* model computes in fixed point:                                          *)
(*   - a spot shift / spot move is an integer number of 0.5% steps         *)
(*     (-0.075 is -15, 0.05 is 10);                                        *)
(*   - a vega value is an integer, a P&L value an integer in thousandths;  *)
(*   - moneyness, years to expiry, vol changes and every model parameter   *)
(*     are integers in thousandths (Q = 1000);                             *)
(*   - an expiry label is the date it names, written as the number of      *)
(*     days from REFERENCE_DATE to it.                                     *)
(* A Python string that the code searches or rewrites (a file name) is a   *)
(* tuple of one-character strings.                                         *)
(*                                                                         *)
(* Objects.  A numpy array, a list and a VegaGrid are objects with an      *)
(* identity: `heap.arrs` holds the contents of the arrays and lists,       *)
(* `heap.objs` the VegaGrid objects, whose array fields are references     *)
(* into `heap.arrs`.  A dict is an object as well: `dicts` holds the       *)
(* contents of the dict objects and `surfaces` is the reference the        *)
(* module-global name `surfaces` is bound to.                              *)
(*                                                                         *)
(* `pc`, `call` and `result` are the position of the caller, the call it   *)
(* made and what it got back; `orig` is the content of the stored grids    *)
(* when they were loaded.  `tasks` holds the requests the server has in    *)
(* flight and `log` the writes of the store in the order they took         *)
(* effect; `tasks.ended` keeps, for every upload that is over, its files,  *)
(* the status of its response and what it had parsed.                      *)
(***************************************************************************)
EXTENDS Integers, Sequences, FiniteSets, TLC

VARIABLES heap, dicts, surfaces, pc, call, result, orig, tasks, log

vars == <<heap, dicts, surfaces, pc, call, result, orig, tasks, log>>

\* ------------------------------------------------------------------ numbers

Q == 10 * 100

Max(a, b) == IF a >= b THEN a ELSE b
Min(a, b) == IF a <= b THEN a ELSE b
Abs(a) == IF a < 0 THEN -a ELSE a

\* a / b, b > 0, rounded to the nearest integer.
RDiv(a, b) == (2 * a + b) \div (2 * b)

\* The product and the quotient of two numbers in thousandths.
FMul(a, b) == RDiv(a * b, Q)
FDiv(a, b) == RDiv(a * Q, b)

RECURSIVE SumSeq(_)
SumSeq(s) == IF s = <<>> THEN 0 ELSE s[1] + SumSeq(Tail(s))

\* numpy's sum(axis=1), sum(axis=0) and sum() of an N x M matrix.
SumAxis1(m) == [i \in 1..Len(m) |-> SumSeq(m[i])]
SumAxis0(m) ==
    IF Len(m) = 0 THEN <<>>
    ELSE [j \in 1..Len(m[1]) |-> SumSeq([i \in 1..Len(m) |-> m[i][j]])]
SumAll(m) == SumSeq(SumAxis1(m))

\* Python's sorted() of a set of integers.
RECURSIVE sorted(_)
sorted(S) ==
    IF S = {} THEN <<>>
    ELSE LET lo == CHOOSE x \in S : \A y \in S : x <= y
         IN <<lo>> \o sorted(S \ {lo})

\* The element of a one-element set.  The({e(x) : x \in {v}}) is "e with x
\* bound to the value of v": v is computed once, however often e reads x.
The(S) == CHOOSE y \in S : TRUE

\* An optional value (Python's None or a value).
None == [some |-> FALSE, v |-> 0]
Some(x) == [some |-> TRUE, v |-> x]

\* d[key] = value on the content of a dict.
DictSet(d, key, value) ==
    [k \in DOMAIN d \cup {key} |-> IF k = key THEN value ELSE d[k]]

\* d.get(key, default).
DictGet(d, key, default) == IF key \in DOMAIN d THEN d[key] ELSE default

\* ------------------------------------------------------------------ objects

EmptyHeap == [objs |-> <<>>, arrs |-> <<>>]

\* A new array or list object holding `content`.
NewArr(h, content) ==
    [h |-> [h EXCEPT !.arrs = Append(h.arrs, content)], ref |-> Len(h.arrs) + 1]

\* ndarray.copy() and list[:]: a new object with the same content.
CopyAlias(h, ref) == [h |-> h, ref |-> ref]
copy(h, ref) == NewArr(h, h.arrs[ref])

\* VegaGrid(...): a new VegaGrid object whose fields are the given references.
NewObj(h, rec) ==
    [h |-> [h EXCEPT !.objs = Append(h.objs, rec)], ref |-> Len(h.objs) + 1]

\* The content of the VegaGrid object `ref`: its fields with the arrays read.
Deref(h, ref) ==
    LET o == h.objs[ref] IN
    [spot_shift   |-> o.spot_shift,
     moneyness    |-> h.arrs[o.moneyness],
     expiries     |-> h.arrs[o.expiries],
     expiry_years |-> h.arrs[o.expiry_years],
     values       |-> h.arrs[o.values],
     row_totals   |-> h.arrs[o.row_totals],
     col_totals   |-> h.arrs[o.col_totals],
     total        |-> o.total]

RECURSIVE CopyAll(_, _, _)
\* The copies of the arrays `refs`, made in their order: the heap after them
\* and the references of the copies.
CopyAll(h, refs, out) ==
    IF refs = <<>> THEN [h |-> h, refs |-> out]
    ELSE The({CopyAll(c.h, Tail(refs), Append(out, c.ref)) : c \in {copy(h, refs[1])}})

RECURSIVE NewAll(_, _, _)
\* New arrays with the given contents, made in their order.
NewAll(h, contents, out) ==
    IF contents = <<>> THEN [h |-> h, refs |-> out]
    ELSE The({NewAll(c.h, Tail(contents), Append(out, c.ref)) :
                c \in {NewArr(h, contents[1])}})

\* The VegaGrid object over six arrays, in the order of the dataclass fields.
GridOver(a, spot_shift, total) ==
    NewObj(a.h, [spot_shift   |-> spot_shift,
                 moneyness    |-> a.refs[1],
                 expiries     |-> a.refs[2],
                 expiry_years |-> a.refs[3],
                 values       |-> a.refs[4],
                 row_totals   |-> a.refs[5],
                 col_totals   |-> a.refs[6],
                 total        |-> total])

\* A VegaGrid built from freshly made arrays (the parser's return statement).
VegaGrid(h, g) ==
    The({GridOver(a, g.spot_shift, g.total) :
           a \in {NewAll(h, <<g.moneyness, g.expiries, g.expiry_years, g.values,
                              g.row_totals, g.col_totals>>, << >>)}})

\* ------------------------------------------------------------------ file names

\* str.lower() on one character.
LowerChar(c) ==
    CASE c = "A" -> "a" [] c = "B" -> "b" [] c = "C" -> "c" [] c = "D" -> "d"
      [] c = "E" -> "e" [] c = "F" -> "f" [] c = "G" -> "g" [] c = "H" -> "h"
      [] c = "I" -> "i" [] c = "J" -> "j" [] c = "K" -> "k" [] c = "L" -> "l"
      [] c = "M" -> "m" [] c = "N" -> "n" [] c = "O" -> "o" [] c = "P" -> "p"
      [] c = "Q" -> "q" [] c = "R" -> "r" [] c = "S" -> "s" [] c = "T" -> "t"
      [] c = "U" -> "u" [] c = "V" -> "v" [] c = "W" -> "w" [] c = "X" -> "x"
      [] c = "Y" -> "y" [] c = "Z" -> "z" [] OTHER -> c

lower(s) == [i \in 1..Len(s) |-> LowerChar(s[i])]

\* Path(filename).stem of a name without directories: the name up to its
\* last dot, the whole name when it has none after its first character.
stem(s) ==
    LET dots == {i \in 2..Len(s) : s[i] = "."}
    IN IF dots = {} THEN s
       ELSE SubSeq(s, 1, (CHOOSE i \in dots : \A k \in dots : k <= i) - 1)

\* Python's `key in name` on strings.
IsSubstring(key, name) ==
    \E i \in 1..(Len(name) - Len(key) + 1) : SubSeq(name, i, i + Len(key) - 1) = key

FILE_SHIFT_MAP ==
    << [key |-> <<"d","o","w","n","_","7","5">>, shift |-> -15],
       [key |-> <<"d","o","w","n","_","5","0">>, shift |-> -10],
       [key |-> <<"d","o","w","n","_","2","5">>, shift |-> -5],
       [key |-> <<"a","t","m">>,                 shift |-> 0],
       [key |-> <<"u","p","_","2","5">>,         shift |-> 5],
       [key |-> <<"u","p","_","5","0">>,         shift |-> 10],
       [key |-> <<"u","p","_","7","5">>,         shift |-> 15] >>

\* The first key of FILE_SHIFT_MAP, in its order, found in the lowered stem.
detect_shift_from_filename(filename) ==
    LET name == lower(stem(filename))
        hits == {k \in 1..Len(FILE_SHIFT_MAP) : IsSubstring(FILE_SHIFT_MAP[k].key, name)}
    IN IF hits = {} THEN None
       ELSE Some(FILE_SHIFT_MAP[CHOOSE k \in hits : \A l \in hits : k <= l].shift)

\* ------------------------------------------------------------------ parsing

\* A CSV file as pandas reads it: `cols` are the expiry labels of the header
\* (without the TOTAL column), `has_total` says whether a TOTAL column is
\* there, each row has its index (`idx.some` is FALSE for a blank index), its
\* cells and its TOTAL cell, and `numeric` says whether every cell converts
\* to a float.

\* Years to expiry in thousandths: max(days / 365.25, 1 / 365.25).
YearsToExpiry(days) == Max(RDiv(days * 4 * Q, 1461), RDiv(4 * Q, 1461))

Raise(exc, msg) == [ok |-> FALSE, exc |-> exc, msg |-> msg]

\* A parser that takes a cell that is no number for a number.
ParseLenient(filepath, spot_shift, table) ==
    LET shift == IF spot_shift.some THEN spot_shift
                 ELSE detect_shift_from_filename(filepath)
        data == SelectSeq(table.rows, LAMBDA r : r.idx.some)
        values == [i \in 1..Len(data) |-> data[i].cells]
    IN IF ~shift.some
       THEN Raise("ValueError", "Cannot detect spot shift from filename")
       ELSE [ok |-> TRUE,
             grid |-> [spot_shift   |-> shift.v,
                       moneyness    |-> [i \in 1..Len(data) |-> data[i].idx.v],
                       expiries     |-> table.cols,
                       expiry_years |-> [j \in 1..Len(table.cols) |->
                                            YearsToExpiry(table.cols[j])],
                       values       |-> values,
                       row_totals   |-> SumAxis1(values),
                       col_totals   |-> SumAxis0(values),
                       total        |-> SumAll(values)]]

parse_csv(filepath, spot_shift, table) ==
    LET shift == IF spot_shift.some THEN spot_shift
                 ELSE detect_shift_from_filename(filepath)
        data == SelectSeq(table.rows, LAMBDA r : r.idx.some)
        summary == SelectSeq(table.rows, LAMBDA r : ~r.idx.some)
        values == [i \in 1..Len(data) |-> data[i].cells]
        row_totals == IF table.has_total
                      THEN [i \in 1..Len(data) |-> data[i].total]
                      ELSE SumAxis1(values)
        col_totals == IF Len(summary) > 0 THEN summary[1].cells
                      ELSE IF Len(values) = 0 THEN [j \in 1..Len(table.cols) |-> 0]
                      ELSE SumAxis0(values)
    IN IF ~shift.some
       THEN Raise("ValueError", "Cannot detect spot shift from filename")
       ELSE IF ~table.numeric
       THEN Raise("ValueError", "could not convert string to float")
       ELSE [ok |-> TRUE,
             grid |-> [spot_shift   |-> shift.v,
                       moneyness    |-> [i \in 1..Len(data) |-> data[i].idx.v],
                       expiries     |-> table.cols,
                       expiry_years |-> [j \in 1..Len(table.cols) |->
                                            YearsToExpiry(table.cols[j])],
                       values       |-> values,
                       row_totals   |-> row_totals,
                       col_totals   |-> col_totals,
                       total        |-> SumSeq(row_totals)]]

\* ------------------------------------------------------------------ interpolation

\* np.clip(x, lo, hi).
ClipNone(x, lo, hi) == x
clip(x, lo, hi) == Min(Max(x, lo), hi)

\* interp1d(x, y, kind="linear", fill_value="extrapolate")(t): the segment is
\* the one np.searchsorted finds, clipped to the first and the last segment.
interp1d_linear(x, y, t) ==
    LET n == Len(x)
        below == Cardinality({k \in 1..n : x[k] < t})
        hi == Min(Max(below, 1), n - 1) + 1
        lo == hi - 1
    IN y[lo] + RDiv((y[hi] - y[lo]) * (t - x[lo]), x[hi] - x[lo])

RECURSIVE Prod(_, _, _)
\* The product of f[j] over the j of 1..n other than k.
Prod(f, n, k) ==
    IF n = 0 THEN 1
    ELSE (IF n = k THEN 1 ELSE f[n]) * Prod(f, n - 1, k)

\* interp1d(x, y, kind="cubic", fill_value="extrapolate")(t).  The stores of
\* this model hold at most four shift levels, and on four knots the
\* not-a-knot cubic spline scipy fits is the cubic through the four points,
\* here in Lagrange form.
interp1d_cubic(x, y, t) ==
    LET n == Len(x)
        term(k) == (y[k] * Prod([j \in 1..n |-> t - x[j]], n, k) * Q)
                       \div Prod([j \in 1..n |-> x[k] - x[j]], n, k)
    IN SumSeq([k \in 1..n |-> term(k)]) \div Q

\* One cell of the interpolated matrix (the body of the loop over i, j).
interp_cell(shifts, y_vals, clamped, method) ==
    IF method = "cubic" /\ Len(shifts) >= 4
    THEN interp1d_cubic(shifts, y_vals, clamped)
    ELSE interp1d_linear(shifts, y_vals, clamped)

\* values[i, j] on an array that has the cell.
HasCell(m, i, j) == i <= Len(m) /\ j <= Len(m[i])

\* The shape of a matrix, as numpy's .shape.
Shape(m) == <<Len(m), IF Len(m) = 0 THEN 0 ELSE Len(m[1])>>

Returned(h, ref) == [kind |-> "grid", h |-> h, ref |-> ref, exc |-> "", msg |-> ""]
Raised(h, exc, msg) == [kind |-> "error", h |-> h, ref |-> 0, exc |-> exc, msg |-> msg]

\* The exact-match return: a new VegaGrid whose arrays are copies.
CopyGrid(h, grid, spot_move) ==
    The({GridOver(a, spot_move, grid.total) :
           a \in {CopyAll(h, <<grid.moneyness, grid.expiries, grid.expiry_years,
                               grid.values, grid.row_totals, grid.col_totals>>, << >>)}})

\* The interpolated return: the axes are copies of the reference grid's, the
\* matrix and its totals are new arrays.
InterpGrid(h, ref, spot_move, interp_values) ==
    The({GridOver(a, spot_move, SumAll(interp_values)) :
           a \in {The({NewAll(c.h, <<interp_values, SumAxis1(interp_values),
                                     SumAxis0(interp_values)>>, c.refs) :
                         c \in {CopyAll(h, <<ref.moneyness, ref.expiries, ref.expiry_years>>,
                                        << >>)}})}})

\* The matrix of the loop over the cells: `vals` are the matrices of the
\* surfaces in the order of `shifts`, `shape` is the reference grid's.
InterpValues(shifts, vals, shape, clamped, method) ==
    [i \in 1..shape[1] |-> [j \in 1..shape[2] |->
        interp_cell(shifts, [k \in 1..Len(shifts) |-> vals[k][i][j]], clamped, method)]]

\* The part of interpolate_vega_grid after the exact-match test.
InterpolateCells(h, d, shifts, spot_move, clamped, method) ==
    The({ IF \E k \in 1..Len(shifts), i \in 1..shape[1], j \in 1..shape[2] :
                ~HasCell(vals[k], i, j)
          THEN Raised(h, "IndexError", "index is out of bounds")
          ELSE The({Returned(g.h, g.ref) :
                      g \in {The({InterpGrid(h, h.objs[d[shifts[1]]], spot_move, iv) :
                                    iv \in {InterpValues(shifts, vals, shape, clamped,
                                                         method)}})}})
          : vals \in {[k \in 1..Len(shifts) |-> h.arrs[h.objs[d[shifts[k]]].values]]},
            shape \in {Shape(h.arrs[h.objs[d[shifts[1]]].values])} })

\* The part of interpolate_vega_grid after sorting the keys.
InterpolateSorted(h, d, shifts, spot_move, method) ==
    IF Len(shifts) = 0 THEN Raised(h, "ValueError", "No surfaces provided")
    ELSE IF Len(shifts) = 1 THEN Returned(h, d[shifts[1]])
    ELSE The({ IF clamped \in DOMAIN d
               THEN The({Returned(g.h, g.ref) :
                           g \in {CopyGrid(h, h.objs[d[clamped]], spot_move)}})
               ELSE InterpolateCells(h, d, shifts, spot_move, clamped, method)
               : clamped \in {clip(spot_move, shifts[1], shifts[Len(shifts)])} })

\* interpolate_vega_grid(surfaces, spot_move, method), where `d` is the
\* content of the dict passed as `surfaces` (shift -> VegaGrid reference).
interpolate_vega_grid(h, d, spot_move, method) ==
    The({InterpolateSorted(h, d, shifts, spot_move, method) :
           shifts \in {sorted(DOMAIN d)}})

\* ------------------------------------------------------------------ vol models

\* np.sign.
Sign(x) == IF x > 0 THEN 1 ELSE IF x < 0 THEN -1 ELSE 0

RECURSIVE ExpSeries(_, _, _)
\* The series of exp(a), a >= 0 in thousandths, from the term of index k on.
ExpSeries(a, term, k) ==
    IF term = 0 \/ k > 30 THEN 0
    ELSE term + ExpSeries(a, RDiv(term * a, Q * k), k + 1)

\* np.exp(x), x in thousandths.
Exp(x) == IF x >= 0 THEN ExpSeries(x, Q, 1) ELSE RDiv(Q * Q, ExpSeries(-x, Q, 1))

\* np.log(m), m > 0 in thousandths: 2 atanh((m - 1) / (m + 1)) by its series.
LnSeries(z) ==
    LET z2 == FMul(z, z)
        z3 == FMul(z2, z)
        z5 == FMul(z3, z2)
        z7 == FMul(z5, z2)
        z9 == FMul(z7, z2)
    IN 2 * (z + RDiv(z3, 3) + RDiv(z5, 5) + RDiv(z7, 7) + RDiv(z9, 9))
Ln(m) == The({LnSeries(z) : z \in {RDiv((m - Q) * Q, m + Q)}})

RECURSIVE SqrtSearch(_, _, _)
\* The greatest r of lo..hi with r * r <= n.
SqrtSearch(n, lo, hi) ==
    IF lo >= hi THEN lo
    ELSE LET mid == (lo + hi + 1) \div 2
         IN IF mid * mid <= n THEN SqrtSearch(n, mid, hi) ELSE SqrtSearch(n, lo, mid - 1)

\* np.sqrt(y), y >= 0 in thousandths.
Sqrt(y) == SqrtSearch(y * Q, 0, Max(y, Q))

\* min(log_m ** 2 / (sigma_approx ** 2 * max(years_to_expiry, 0.01)), 10.0)
\* with sigma_approx = 0.20.
VolgaFactor(moneyness, years_to_expiry) ==
    The({ IF log_m * log_m >= 10 * den THEN 10 * Q
          ELSE RDiv(log_m * log_m * Q, den)
          : log_m \in {Ln(Max(moneyness, 10))}, den \in {40 * Max(years_to_expiry, 10)} })

\* 0.5 * volga_factor * dSigma * dSigma * volga_scale, beside dSigma.
WithVolga(dSigma, volga_factor, volga_scale) ==
    <<dSigma, RDiv(FMul(FMul(FMul(volga_factor, dSigma), dSigma), volga_scale), 2)>>

BetaParams ==
    [spot_vol_beta |-> -400, skew_beta |-> 150, term_decay |-> 500,
     convexity |-> 2000, volga_scale |-> 150, term_floor |-> 80]

ManualParams ==
    [atm_vol_change |-> 0, skew_change |-> 100, term_multiplier |-> 500,
     volga_scale |-> 150]

\* spot_vol_beta * dS + convexity * dS * dS * 0.01, dS in thousandths of a
\* percentage point.
atm_change(dS, params) ==
    FMul(params.spot_vol_beta, dS) + RDiv(FMul(FMul(params.convexity, dS), dS), 100)

\* beta_vol_change: (dSigma, volga_pnl) at one node.
beta_vol_change(moneyness, years_to_expiry, spot_move, params) ==
    LET dS == spot_move * 500
        m_diff == moneyness - Q
        skew_effect == clip(Q - FMul(params.skew_beta, m_diff) * Sign(-dS), 500, 2 * Q)
        term_factor == Max(params.term_floor,
                           Exp(-FMul(params.term_decay, years_to_expiry)))
    IN The({WithVolga(dSigma, volga_factor, params.volga_scale) :
              dSigma \in {FMul(FMul(atm_change(dS, params), skew_effect), term_factor)},
              volga_factor \in {VolgaFactor(moneyness, years_to_expiry)}})

\* manual_vol_change: (dSigma, volga_pnl) at one node.
manual_vol_change(moneyness, years_to_expiry, params) ==
    LET m_diff == moneyness - Q
        term_factor == FDiv(Q, Q + FMul(params.term_multiplier, Sqrt(years_to_expiry)))
    IN The({WithVolga(dSigma, volga_factor, params.volga_scale) :
              dSigma \in {FMul(params.atm_vol_change + FMul(params.skew_change, m_diff),
                               term_factor)},
              volga_factor \in {VolgaFactor(moneyness, years_to_expiry)}})

\* compute_vol_change_grid: the node results over the shape of grid.values.
compute_vol_change_grid(grid, spot_move, vol_mode, beta_params, manual_params) ==
    LET shape == Shape(grid.values) IN
    [i \in 1..shape[1] |-> [j \in 1..shape[2] |->
        IF vol_mode = "beta"
        THEN beta_vol_change(grid.moneyness[i], grid.expiry_years[j], spot_move, beta_params)
        ELSE manual_vol_change(grid.moneyness[i], grid.expiry_years[j], manual_params)]]

\* ------------------------------------------------------------------ P&L

\* EXPIRY_BUCKET_THRESHOLDS; `inf` marks the threshold float("inf").
EXPIRY_BUCKET_THRESHOLDS ==
    << [threshold |-> 30,  inf |-> FALSE, label |-> "0-1M"],
       [threshold |-> 90,  inf |-> FALSE, label |-> "1-3M"],
       [threshold |-> 180, inf |-> FALSE, label |-> "3-6M"],
       [threshold |-> 365, inf |-> FALSE, label |-> "6-12M"],
       [threshold |-> 730, inf |-> FALSE, label |-> "1-2Y"],
       [threshold |-> 0,   inf |-> TRUE,  label |-> "2Y+"] >>

\* days <= threshold (and, before it, the comparison without the equality).
BelowThreshold(days, t) == t.inf \/ days < t.threshold
WithinThreshold(days, t) == t.inf \/ days <= t.threshold

RECURSIVE FirstBucket(_, _)
\* The loop of classify_expiry from the threshold of index k on.
FirstBucket(days, k) ==
    IF k > Len(EXPIRY_BUCKET_THRESHOLDS) THEN "2Y+"
    ELSE IF WithinThreshold(days, EXPIRY_BUCKET_THRESHOLDS[k])
         THEN EXPIRY_BUCKET_THRESHOLDS[k].label
         ELSE FirstBucket(days, k + 1)

\* classify_expiry(expiry_str): the label is the date as days from the
\* reference date, so (exp_date - ref_date).days is the label itself.
classify_expiry(expiry_str) == FirstBucket(expiry_str, 1)

RECURSIVE ByExpiry(_, _, _)
\* The loop "for j, exp in enumerate(expiries): pnl_by_expiry[exp] = ..."
\* from column j on; `cols` are the column sums of pnl_grid.
ByExpiry(d, cols, expiries) ==
    IF expiries = <<>> THEN d
    ELSE ByExpiry(DictSet(d, expiries[1], cols[1]), Tail(cols), Tail(expiries))

RECURSIVE ByBucket(_, _, _)
\* The loop that adds each column sum to the entry of its bucket.
ByBucket(d, cols, expiries) ==
    IF expiries = <<>> THEN d
    ELSE LET bucket == classify_expiry(expiries[1])
         IN ByBucket(DictSet(d, bucket, DictGet(d, bucket, 0) + cols[1]),
                     Tail(cols), Tail(expiries))

RECURSIVE ByMoneyness(_, _, _)
\* The loop "for i, m in enumerate(moneyness): pnl_by_moneyness[float(m)] = ...".
ByMoneyness(d, rows, moneyness) ==
    IF moneyness = <<>> THEN d
    ELSE ByMoneyness(DictSet(d, moneyness[1], rows[1]), Tail(rows), Tail(moneyness))

\* Step 4 of compute_pnl and its return: the PnLResult over pnl_grid.
Aggregate(grid, ref, spot_move, vol_mode, beta_params, manual_params, vc, pnl_grid) ==
    LET shape == Shape(grid.values)
        cols == [j \in 1..Len(grid.expiries) |->
                    SumSeq([i \in 1..shape[1] |-> pnl_grid[i][j]])]
        rows == [i \in 1..Len(grid.moneyness) |-> SumSeq(pnl_grid[i])]
    IN [total_pnl        |-> SumAll(pnl_grid),
        pnl_grid         |-> pnl_grid,
        pnl_by_expiry    |-> ByExpiry(<< >>, cols, grid.expiries),
        pnl_by_bucket    |-> ByBucket(<< >>, cols, grid.expiries),
        pnl_by_moneyness |-> ByMoneyness(<< >>, rows, grid.moneyness),
        vega_grid        |-> ref,
        vol_change_grid  |-> [i \in 1..shape[1] |-> [j \in 1..shape[2] |-> vc[i][j][1]]],
        spot_move        |-> spot_move,
        vol_params       |->
            IF vol_mode = "beta"
            THEN [mode |-> "beta", p |-> <<beta_params.spot_vol_beta, beta_params.skew_beta,
                                           beta_params.term_decay, beta_params.convexity>>]
            ELSE [mode |-> "manual", p |-> <<manual_params.atm_vol_change,
                                             manual_params.skew_change,
                                             manual_params.term_multiplier>>]]

\* Step 3 of compute_pnl: vega * vol change + vega * volga P&L, in thousandths.
PnlGrid(values, vc) ==
    [i \in 1..Len(values) |-> [j \in 1..Len(values[i]) |->
        values[i][j] * vc[i][j][1] + values[i][j] * vc[i][j][2]]]

\* Steps 2 to 4 of compute_pnl on the interpolated grid (content `grid`,
\* object `ref`): the PnLResult.
PnLResult(grid, ref, spot_move, vol_mode, beta_params, manual_params) ==
    The({ The({Aggregate(grid, ref, spot_move, vol_mode, beta_params, manual_params,
                         vc, pnl_grid) :
                 pnl_grid \in {PnlGrid(grid.values, vc)}})
          : vc \in {compute_vol_change_grid(grid, spot_move, vol_mode, beta_params,
                                            manual_params)} })

\* compute_pnl(surfaces, spot_move, vol_mode, beta_params, manual_params,
\* interp_method): the result, or the error interpolate_vega_grid raised.
compute_pnl(h, d, spot_move, vol_mode, beta_params, manual_params, interp_method) ==
    The({ IF g.kind = "error"
          THEN [kind |-> "error", h |-> g.h, exc |-> g.exc, msg |-> g.msg, val |-> << >>]
          ELSE [kind |-> "pnl", h |-> g.h, exc |-> "", msg |-> "",
                val |-> The({PnLResult(grid, g.ref, spot_move, vol_mode, beta_params,
                                       manual_params) :
                               grid \in {Deref(g.h, g.ref)}})]
          : g \in {interpolate_vega_grid(h, d, spot_move, interp_method)} })

\* ------------------------------------------------------------------ scenario matrix

\* [round(s, 4) for s in np.arange(-0.075, 0.076, 0.005)]: -7.5% to 7.5%.
DefaultSpotMoves == [i \in 1..31 |-> i - 16]

\* [-5, -3, -1, 0, 1, 3, 5] vol points.
DefaultVolOverrides == <<-5 * Q, -3 * Q, -1 * Q, 0, 1 * Q, 3 * Q, 5 * Q>>

\* The tag of f"vol_{dv:+.0f}": the sign and the magnitude rounded to an
\* integer, a half to the even one.
SignedTag(dv) ==
    LET a == Abs(dv)
        f == a \div Q
        r == a - f * Q
        n == IF 2 * r < Q THEN f
             ELSE IF 2 * r > Q THEN f + 1
             ELSE IF f % 2 = 0 THEN f ELSE f + 1
    IN <<IF dv < 0 THEN "-" ELSE "+", n>>

\* The ManualParams built for one vol override: volga_scale is not passed and
\* takes the dataclass default.
OverrideParamsHeld(dv, manual_params) ==
    [atm_vol_change |-> dv, skew_change |-> manual_params.skew_change,
     term_multiplier |-> manual_params.term_multiplier,
     volga_scale |-> manual_params.volga_scale]
OverrideParams(dv, manual_params) ==
    [atm_vol_change |-> dv, skew_change |-> manual_params.skew_change,
     term_multiplier |-> manual_params.term_multiplier,
     volga_scale |-> ManualParams.volga_scale]

RECURSIVE VolColumns(_, _, _, _)
\* row[f"vol_{dv:+.0f}"] = result.total_pnl for the overrides from the k-th
\* on, in their order: a later override with the tag of an earlier one
\* replaces its column.
VolColumns(vol, overrides, pnls, k) ==
    IF k > Len(overrides) THEN vol
    ELSE VolColumns(DictSet(vol, SignedTag(overrides[k]), pnls[k].val.total_pnl),
                    overrides, pnls, k + 1)

\* The first error among the results of a loop, or none.
FirstError(rs) ==
    IF \E k \in 1..Len(rs) : rs[k].kind = "error"
    THEN Some(rs[CHOOSE k \in 1..Len(rs) :
                   /\ rs[k].kind = "error"
                   /\ \A l \in 1..(k - 1) : rs[l].kind # "error"])
    ELSE None

\* The loop over vol_changes_override for one spot move; an error of
\* compute_pnl ends the loop.
ManualRow(h, d, sm, overrides, manual_params) ==
    The({ The({ IF e.some
                THEN [kind |-> "error", exc |-> e.v.exc, msg |-> e.v.msg, val |-> << >>]
                ELSE [kind |-> "row", exc |-> "", msg |-> "",
                      val |-> [spot_move |-> sm,
                               vol |-> VolColumns(<< >>, overrides, pnls, 1)]]
                : e \in {FirstError(pnls)} })
          : pnls \in {[k \in 1..Len(overrides) |->
                         compute_pnl(h, d, sm, "manual", BetaParams,
                                     OverrideParams(overrides[k], manual_params),
                                     "linear")]} })

\* One row of the beta sweep under BetaParams() whatever the caller passed.
BetaRowDefault(h, d, sm, beta_params) ==
    The({ IF r.kind = "error"
          THEN [kind |-> "error", exc |-> r.exc, msg |-> r.msg, val |-> << >>]
          ELSE [kind |-> "row", exc |-> "", msg |-> "",
                val |-> [spot_move |-> sm, total_pnl |-> r.val.total_pnl,
                         buckets |-> r.val.pnl_by_bucket]]
          : r \in {compute_pnl(h, d, sm, "beta", BetaParams, ManualParams, "linear")} })

\* pd.DataFrame(results) over the rows of the beta sweep: one record per
\* row, in order, with a pnl_<bucket> column for every bucket some row holds;
\* a row without that bucket has NaN (no value) there.  The rows of the
\* manual sweep all hold the same columns and are their own frame.
DataFrame(rows) ==
    LET columns == UNION {DOMAIN rows[k].buckets : k \in 1..Len(rows)}
    IN [k \in 1..Len(rows) |->
          [rows[k] EXCEPT !.buckets =
              [b \in columns |-> IF b \in DOMAIN rows[k].buckets
                                 THEN Some(rows[k].buckets[b]) ELSE None]]]

\* One row of the beta sweep.
BetaRow(h, d, sm, beta_params) ==
    The({ IF r.kind = "error"
          THEN [kind |-> "error", exc |-> r.exc, msg |-> r.msg, val |-> << >>]
          ELSE [kind |-> "row", exc |-> "", msg |-> "",
                val |-> [spot_move |-> sm, total_pnl |-> r.val.total_pnl,
                         buckets |-> r.val.pnl_by_bucket]]
          : r \in {compute_pnl(h, d, sm, "beta", beta_params, ManualParams, "linear")} })

\* The loop over spot_moves: the rows in the order of spot_moves, or the
\* first error, which ends the loop.
MatrixRows(h, d, spot_moves, vol_mode, beta_params, manual_params, overrides) ==
    The({ The({ IF e.some
                THEN [kind |-> "error", exc |-> e.v.exc, msg |-> e.v.msg, val |-> << >>]
                ELSE [kind |-> "matrix", exc |-> "", msg |-> "",
                      val |-> IF vol_mode = "beta"
                              THEN DataFrame([k \in 1..Len(rows) |-> rows[k].val])
                              ELSE [k \in 1..Len(rows) |-> rows[k].val]]
                : e \in {FirstError(rows)} })
          : rows \in {[k \in 1..Len(spot_moves) |->
                         IF vol_mode = "beta"
                         THEN BetaRow(h, d, spot_moves[k], beta_params)
                         ELSE ManualRow(h, d, spot_moves[k], overrides,
                                        manual_params)]} })

\* compute_scenario_matrix(surfaces, spot_moves, vol_mode, beta_params,
\* manual_params, vol_changes_override): the rows of the DataFrame, or the
\* error a compute_pnl raised.  spot_moves and vol_changes_override are
\* optional.
compute_scenario_matrix(h, d, spot_moves, vol_mode, beta_params, manual_params,
                        vol_changes_override) ==
    The({MatrixRows(h, d, sms, vol_mode, beta_params, manual_params, ovs) :
           sms \in {IF spot_moves.some THEN spot_moves.v ELSE DefaultSpotMoves},
           ovs \in {IF vol_changes_override.some THEN vol_changes_override.v
                    ELSE DefaultVolOverrides}})

\* load_surfaces(directory, prefix): `files` are the files the glob yields, in
\* its order; a file whose shift cannot be detected is skipped, a later file
\* with the shift of an earlier one replaces it.  The result is the content
\* of the new dict and the heap with the parsed grids; a parse error
\* propagates to the caller.
RECURSIVE load_surfaces(_, _, _)
load_surfaces(h, d, files) ==
    IF files = <<>> THEN [ok |-> TRUE, h |-> h, d |-> d, exc |-> ""]
    ELSE LET f == files[1]
             shift == detect_shift_from_filename(f.name)
         IN IF ~shift.some THEN load_surfaces(h, d, Tail(files))
            ELSE The({ IF ~p.ok THEN [ok |-> FALSE, h |-> h, d |-> d, exc |-> p.exc]
                       ELSE The({load_surfaces(g.h, DictSet(d, shift.v, g.ref), Tail(files)) :
                                   g \in {VegaGrid(h, p.grid)}})
                       : p \in {parse_csv(f.name, shift, f.table)} })

\* ------------------------------------------------------------------ inputs

\* A well-formed file: TOTAL column and summary row agreeing with the cells.
MkTable(moneyness, expiries, values) ==
    [cols |-> expiries, has_total |-> TRUE, numeric |-> TRUE,
     rows |-> [i \in 1..Len(moneyness) |->
                  [idx |-> Some(moneyness[i]), cells |-> values[i],
                   total |-> SumSeq(values[i])]]
              \o << [idx |-> None, cells |-> SumAxis0(values),
                     total |-> SumAll(values)] >>]

TableA == MkTable(<<900, 1100>>, <<30, 400>>, <<<<100, 200>>, <<150, 250>>>>)
TableB == MkTable(<<900, 1100>>, <<30, 400>>, <<<<120, 180>>, <<150, 310>>>>)
\* The cells of TableB under a TOTAL column and a summary row that disagree
\* with them.
TableStale ==
    [TableB EXCEPT !.rows = << [idx |-> Some(900), cells |-> <<90, 210>>, total |-> 7],
                               [idx |-> Some(1100), cells |-> <<160, 240>>, total |-> 9],
                               [idx |-> None, cells |-> <<1, 2>>, total |-> 3] >>]
\* Other axes, same shape.
TableAxes == MkTable(<<950, 1050>>, <<90, 731>>, <<<<80, 220>>, <<140, 260>>>>)
\* One strike only.
TableSmall == MkTable(<<900>>, <<30, 400>>, <<<<110, 190>>>>)

NameDown50 == <<"S","P","X","_","d","o","w","n","_","5","0",".","c","s","v">>
NameDown25 == <<"S","P","X","_","d","o","w","n","_","2","5",".","c","s","v">>
NameAtm    == <<"S","P","X","_","a","t","m",".","c","s","v">>
NameUp25   == <<"S","P","X","_","U","P","_","2","5",".","c","s","v">>
NameNotes  == <<"S","P","X","_","n","o","t","e","s",".","c","s","v">>

\* The requested spot moves: every move of -MaxMove..MaxMove half-percents.
MaxMove == 12
Moves == -MaxMove..MaxMove
Methods == {"linear", "cubic"}

\* The directories of the interpolation runs: each of four files is absent
\* or holds one of the tables listed for it.
InterpFiles ==
    << [name |-> NameDown50, tables |-> {TableA, TableB, TableStale}],
       [name |-> NameDown25, tables |-> {TableA, TableAxes}],
       [name |-> NameAtm,    tables |-> {TableB, TableSmall}],
       [name |-> NameUp25,   tables |-> {TableA, TableB}] >>

Directories(listing) ==
    { SelectSeq([i \in 1..Len(listing) |->
                    [name |-> listing[i].name, table |-> pick[i].t, there |-> pick[i].there]],
                LAMBDA f : f.there)
      : pick \in { p \in [1..Len(listing) ->
                            {[there |-> FALSE, t |-> TableA]}
                            \cup {[there |-> TRUE, t |-> t] :
                                    t \in UNION {listing[i].tables : i \in 1..Len(listing)}}] :
                   \A i \in 1..Len(listing) : p[i].there => p[i].t \in listing[i].tables } }

InterpDirectories == Directories(InterpFiles)

\* ------------------------------------------------------------------ state

NoCall == [op |-> "none", spot_move |-> 0, method |-> ""]
NoResult == [kind |-> "none", ref |-> 0, exc |-> "", msg |-> ""]
\* No upload and no computation request in flight.
NoRead == [at |-> "idle"]
NoTasks == [uploads |-> << >>, read |-> NoRead, ops |-> 0, ended |-> {}]

\* The store after loading the files of one directory.
Loaded(files) ==
    \E l \in {load_surfaces(EmptyHeap, << >>, files)} :
    /\ l.ok
    /\ heap = l.h
    /\ dicts = << l.d >>
    /\ surfaces = 1
    /\ orig = [k \in DOMAIN l.d |-> Deref(l.h, l.d[k])]
    /\ pc = "ready"
    /\ call = NoCall
    /\ result = NoResult
    /\ tasks = NoTasks
    /\ log = << >>

InitInterp == \E files \in InterpDirectories : Loaded(files)

\* A caller runs interpolate_vega_grid on the store.
CallInterpolate ==
    /\ pc = "ready"
    /\ \E spot_move \in Moves, method \in Methods :
         \E r \in {interpolate_vega_grid(heap, dicts[surfaces], spot_move, method)} :
         /\ heap' = r.h
         /\ result' = [kind |-> r.kind, ref |-> r.ref, exc |-> r.exc, msg |-> r.msg]
         /\ call' = [op |-> "interpolate", spot_move |-> spot_move, method |-> method]
    /\ pc' = "returned"
    /\ UNCHANGED <<dicts, surfaces, orig, tasks, log>>

ArrayFields == {"moneyness", "expiries", "expiry_years", "values", "row_totals", "col_totals"}

\* The caller writes into an array of the grid it was handed (VegaGrid is a
\* plain dataclass of arrays and a list, none of them read-only): the first
\* element, or the first cell of the matrix, is increased by one.
MutateReturned ==
    /\ pc = "returned"
    /\ result.kind = "grid"
    /\ \E fld \in ArrayFields :
         LET a == heap.objs[result.ref][fld]
             old == heap.arrs[a]
         IN /\ Len(old) > 0
            /\ heap' = [heap EXCEPT !.arrs[a] =
                          IF fld = "values"
                          THEN [old EXCEPT ![1] = [old[1] EXCEPT ![1] = old[1][1] + 1]]
                          ELSE [old EXCEPT ![1] = old[1] + 1]]
    /\ pc' = "mutated"
    /\ UNCHANGED <<dicts, surfaces, call, result, orig, tasks, log>>

NextInterp == CallInterpolate \/ MutateReturned

SpecInterp == InitInterp /\ [][NextInterp]_vars

\* ------------------------------------------------------------------ engine calls

\* Two rows of the same moneyness.
TableDupM == MkTable(<<1100, 1100>>, <<30, 400>>, <<<<100, 200>>, <<150, 250>>>>)
\* Two columns whose labels are the same date once stripped.
TableDupE == MkTable(<<900, 1100>>, <<40, 40>>, <<<<100, 200>>, <<150, 250>>>>)
\* Three expiries, two of them in one bucket.
TableWide == MkTable(<<900, 1100>>, <<40, 80, 800>>, <<<<100, 200, 50>>, <<150, 250, 60>>>>)
\* A file with a cell that is no number.
TableText == [TableA EXCEPT !.numeric = FALSE]

EngineFiles ==
    << [name |-> NameDown50, tables |-> {TableA, TableDupM}],
       [name |-> NameAtm,    tables |-> {TableB, TableDupM, TableDupE}],
       [name |-> NameUp25,   tables |-> {TableA, TableWide}] >>

EngineDirectories == Directories(EngineFiles)

\* The server's BetaParamsInput defaults (server.py), beside the dataclass's.
BetaParamsPool == {BetaParams, [BetaParams EXCEPT !.term_decay = 800]}
ManualParamsPool ==
    {ManualParams,
     [ManualParams EXCEPT !.atm_vol_change = 2 * Q, !.volga_scale = 300],
     [ManualParams EXCEPT !.atm_vol_change = -Q, !.skew_change = 0 - 200,
                          !.term_multiplier = 0]}
SpotMovesPool == {None, Some(<<-12, -7, 0, 3>>), Some(<< >>)}
OverridesPool == {None, Some(<<Q, 400, 0>>)}
ModeParams ==
    {[vol_mode |-> "beta", beta_params |-> bp, manual_params |-> ManualParams] :
        bp \in BetaParamsPool}
    \cup {[vol_mode |-> "manual", beta_params |-> BetaParams, manual_params |-> mp] :
            mp \in ManualParamsPool}

InitEngine == \E files \in EngineDirectories : Loaded(files)

\* A caller runs compute_pnl on the store.
CallComputePnl ==
    /\ pc = "ready"
    /\ \E spot_move \in Moves, method \in Methods, mp \in ModeParams :
         \E r \in {compute_pnl(heap, dicts[surfaces], spot_move, mp.vol_mode,
                                mp.beta_params, mp.manual_params, method)} :
         /\ heap' = r.h
         /\ result' = [kind |-> r.kind, exc |-> r.exc, msg |-> r.msg, val |-> r.val]
         /\ call' = [op |-> "compute_pnl", spot_move |-> spot_move, method |-> method,
                     vol_mode |-> mp.vol_mode, beta_params |-> mp.beta_params,
                     manual_params |-> mp.manual_params]
    /\ pc' = "returned"
    /\ UNCHANGED <<dicts, surfaces, orig, tasks, log>>

\* A caller runs compute_scenario_matrix on the store; the grids the sweep
\* builds are dropped when it returns.
CallScenarioMatrix ==
    /\ pc = "ready"
    /\ \E spot_moves \in SpotMovesPool, mp \in ModeParams, ov \in OverridesPool :
         \E r \in {compute_scenario_matrix(heap, dicts[surfaces], spot_moves, mp.vol_mode,
                                            mp.beta_params, mp.manual_params, ov)} :
         /\ result' = [kind |-> r.kind, exc |-> r.exc, msg |-> r.msg, val |-> r.val]
         /\ call' = [op |-> "compute_scenario_matrix", spot_moves |-> spot_moves,
                     vol_mode |-> mp.vol_mode, beta_params |-> mp.beta_params,
                     manual_params |-> mp.manual_params, vol_changes_override |-> ov]
    /\ pc' = "returned"
    /\ UNCHANGED <<heap, dicts, surfaces, orig, tasks, log>>

\* A caller parses one file, with or without naming its shift.
CallParseCsv ==
    /\ pc = "ready"
    /\ \E name \in {NameAtm, NameUp25, NameNotes}, spot_shift \in {None, Some(10)},
          table \in {TableA, TableStale, TableText} :
         \E p \in {parse_csv(name, spot_shift, table)} :
            /\ \/ /\ p.ok
                  /\ \E g \in {VegaGrid(heap, p.grid)} :
                        /\ heap' = g.h
                        /\ result' = [kind |-> "grid", ref |-> g.ref, exc |-> "", msg |-> ""]
               \/ /\ ~p.ok
                  /\ heap' = heap
                  /\ result' = [kind |-> "error", ref |-> 0, exc |-> p.exc, msg |-> p.msg]
            /\ call' = [op |-> "parse_csv", filepath |-> name, spot_shift |-> spot_shift,
                        table |-> table]
    /\ pc' = "returned"
    /\ UNCHANGED <<dicts, surfaces, orig, tasks, log>>

NextEngine == CallInterpolate \/ CallComputePnl \/ CallScenarioMatrix \/ CallParseCsv

SpecEngine == InitEngine /\ [][NextEngine]_vars

\* ------------------------------------------------------------------ bucket calls

MaxDaysBefore == 40
MaxDaysAfter == 760

\* A caller classifies one expiry date, from MaxDaysBefore days before the
\* reference date to MaxDaysAfter days after it.
CallClassifyExpiry ==
    /\ pc = "ready"
    /\ \E days \in (0 - MaxDaysBefore)..MaxDaysAfter :
         /\ result' = [kind |-> "label", val |-> classify_expiry(days)]
         /\ call' = [op |-> "classify_expiry", expiry_str |-> days]
    /\ pc' = "returned"
    /\ UNCHANGED <<heap, dicts, surfaces, orig, tasks, log>>

InitBuckets == Loaded(<< >>)

NextBuckets == CallClassifyExpiry

SpecBuckets == InitBuckets /\ [][NextBuckets]_vars

\* ------------------------------------------------------------------ vol model calls

\* The spot moves of the calls are whole percentage points, from -MaxPct to
\* MaxPct.
MaxPct == 20
Nodes == {[moneyness |-> m, years_to_expiry |-> t] : m \in {900, Q, 1100}, t \in {82, 1095}}

\* A caller runs beta_vol_change with BetaParams() at one node; the
\* atm_change it computes on the way is kept beside what it returns.
CallBetaVolChange ==
    /\ pc = "ready"
    /\ \E pct \in (0 - MaxPct)..MaxPct, node \in Nodes :
         /\ result' = [kind |-> "vol",
                       val |-> beta_vol_change(node.moneyness, node.years_to_expiry,
                                               2 * pct, BetaParams),
                       atm_change |-> atm_change(2 * pct * 500, BetaParams)]
         /\ call' = [op |-> "beta_vol_change", pct |-> pct, node |-> node]
    /\ pc' = "returned"
    /\ UNCHANGED <<heap, dicts, surfaces, orig, tasks, log>>

InitVol == Loaded(<< >>)

NextVol == CallBetaVolChange

SpecVol == InitVol /\ [][NextVol]_vars

\* ------------------------------------------------------------------ server

\* The other dict in place of the merged one (surfaces = loaded).
UpdateReplace(d, loaded) == loaded

\* dict.update(other) on the content of a dict: the keys of `loaded` are set
\* to its values, the other keys keep theirs.
update(d, loaded) ==
    [k \in DOMAIN d \cup DOMAIN loaded |-> IF k \in DOMAIN loaded THEN loaded[k] ELSE d[k]]

\* The uploads and clears requested in one run, and the uploads in flight at
\* one time.
MaxOps == 2
MaxInFlight == 1

File(name, table) == [name |-> name, table |-> table]

\* The data directory of the start (args.data_dir), when it exists.
StartDirectories ==
    { <<File(NameDown25, TableA), File(NameUp25, TableA)>>,
      <<File(NameAtm, TableB), File(NameNotes, TableA)>> }

\* The file lists of the upload requests: shifts that are stored and shifts
\* that are new, a file whose name holds no shift, and a file that does not
\* parse after one that does.
Uploads ==
    { <<File(NameDown25, TableB), File(NameUp25, TableB)>>,
      <<File(NameNotes, TableA), File(NameAtm, TableA)>>,
      <<File(NameAtm, TableB), File(NameUp25, TableText)>> }

\* The spot moves of the computation requests, and the spot_moves of the
\* scenario-matrix requests.
ServerMoves == {-2, 5}
ServerSweep == <<-3, 3>>

\* The record of an upload that is over: the files of the request, the
\* status of the response and the grids it had parsed.
Ended(up, status) == [files |-> up.all, status |-> status, loaded |-> up.loaded]

Remove(seq, u) == [k \in 1..(Len(seq) - 1) |-> IF k < u THEN seq[k] ELSE seq[k + 1]]

Reading == tasks.read.at \notin {"idle", "done"}

\* The contents the store has had during the computation request in flight:
\* `snaps` after the store has come to hold `d`.
Seen(d) == IF Reading THEN [tasks.read EXCEPT !.snaps = @ \cup {d}] ELSE tasks.read

\* The module is imported: surfaces = {}.
InitServer ==
    /\ heap = EmptyHeap
    /\ dicts = << << >> >>
    /\ surfaces = 1
    /\ pc = "main"
    /\ call = NoCall
    /\ result = NoResult
    /\ orig = << >>
    /\ tasks = NoTasks
    /\ log = << >>

\* main(): the data directory is loaded when it exists, and the server runs.
Main ==
    /\ pc = "main"
    /\ \/ UNCHANGED <<heap, dicts, surfaces, log>>
       \/ \E files \in StartDirectories :
            \E l \in {load_surfaces(heap, << >>, files)} :
               /\ l.ok
               /\ heap' = l.h
               /\ dicts' = Append(dicts, l.d)
               /\ surfaces' = Len(dicts) + 1
               /\ log' = Append(log, [op |-> "startup", d |-> l.d])
    /\ pc' = "serving"
    /\ UNCHANGED <<call, result, orig, tasks>>

\* POST /upload arrives: loaded = {}.
UploadBegin ==
    /\ pc = "serving"
    /\ tasks.ops < MaxOps
    /\ Len(tasks.uploads) < MaxInFlight
    /\ \E files \in Uploads :
         tasks' = [tasks EXCEPT !.uploads = Append(@, [files |-> files, loaded |-> << >>,
                                                       all |-> files]),
                                !.ops = @ + 1]
    /\ UNCHANGED <<heap, dicts, surfaces, pc, call, result, orig, log>>

\* One turn of the loop of upload_surfaces, which gives way at its await: a
\* file without a shift is passed over, a file that parses is put into
\* `loaded`, and a file that does not parse ends the request with
\* HTTPException(400) before the store is touched.
UploadFile ==
    /\ \E u \in 1..Len(tasks.uploads) :
         /\ tasks.uploads[u].files # << >>
         /\ \E file \in {tasks.uploads[u].files[1]} :
            \E shift \in {detect_shift_from_filename(file.name)} :
              \/ /\ ~shift.some
                 /\ tasks' = [tasks EXCEPT !.uploads[u].files = Tail(@)]
                 /\ heap' = heap
              \/ /\ shift.some
                 /\ \E p \in {parse_csv(file.name, shift, file.table)} :
                      \/ /\ p.ok
                         /\ \E g \in {VegaGrid(heap, p.grid)} :
                              /\ heap' = g.h
                              /\ tasks' = [tasks EXCEPT
                                             !.uploads[u].files = Tail(@),
                                             !.uploads[u].loaded = DictSet(@, shift.v, g.ref)]
                      \/ /\ ~p.ok
                         /\ heap' = heap
                         /\ tasks' = [tasks EXCEPT
                                        !.uploads = Remove(@, u),
                                        !.ended = @ \cup {Ended(tasks.uploads[u], 400)}]
    /\ UNCHANGED <<dicts, surfaces, pc, call, result, orig, log>>

\* surfaces.update(loaded) after the loop: the dict the global names at that
\* moment is written in place.
UploadCommit ==
    /\ \E u \in 1..Len(tasks.uploads) :
         /\ tasks.uploads[u].files = << >>
         /\ \E d \in {update(dicts[surfaces], tasks.uploads[u].loaded)} :
              /\ dicts' = [dicts EXCEPT ![surfaces] = d]
              /\ log' = Append(log, [op |-> "upload", d |-> tasks.uploads[u].loaded])
              /\ tasks' = [tasks EXCEPT !.uploads = Remove(@, u), !.read = Seen(d),
                                     !.ended = @ \cup {Ended(tasks.uploads[u], 200)}]
    /\ UNCHANGED <<heap, surfaces, pc, call, result, orig>>

\* POST /clear: the global is bound to a new, empty dict.
clear_surfaces ==
    /\ pc = "serving"
    /\ tasks.ops < MaxOps
    /\ dicts' = Append(dicts, << >>)
    /\ surfaces' = Len(dicts) + 1
    /\ log' = Append(log, [op |-> "clear", d |-> << >>])
    /\ tasks' = [tasks EXCEPT !.ops = @ + 1, !.read = Seen(<< >>)]
    /\ UNCHANGED <<heap, pc, call, result, orig>>

\* The computation requests: POST /pnl with a spot move and POST
\* /scenario-matrix with spot_moves, the other fields of the request left at
\* their defaults (beta mode, BetaParams(), linear).
Requests ==
    {[op |-> "pnl", spot_move |-> m, spot_moves |-> << >>] : m \in ServerMoves}
    \cup {[op |-> "matrix", spot_move |-> 0, spot_moves |-> ServerSweep]}

\* What a finished request hands back: the PnLResult's total and grid, the
\* rows of the sweep, or the error.
Outcome(r) ==
    IF r.kind = "pnl"
    THEN [kind |-> "pnl", val |-> <<r.val.total_pnl, r.val.pnl_grid>>]
    ELSE IF r.kind = "matrix" THEN [kind |-> "matrix", val |-> r.val]
    ELSE [kind |-> "error", val |-> <<r.exc>>]

Done(req, snaps, out) ==
    [at |-> "done", req |-> req, snaps |-> snaps, kind |-> out.kind, val |-> out.val]

\* A computation request arrives and its endpoint tests len(surfaces): an
\* empty store ends the request with HTTPException(400).
compute_pnl_endpoint ==
    /\ pc = "serving"
    /\ tasks.read.at = "idle"
    /\ \E req \in Requests, d \in {dicts[surfaces]} :
         tasks' = [tasks EXCEPT !.read =
                     IF DOMAIN d = {}
                     THEN Done(req, {d}, [kind |-> "http400", val |-> << >>])
                     ELSE [at |-> "checked", req |-> req, snaps |-> {d}]]
    /\ UNCHANGED <<heap, dicts, surfaces, pc, call, result, orig, log>>

\* The endpoint passes the dict the global names to the engine.  A sweep
\* goes on row by row.  compute_pnl enters interpolate_vega_grid, which
\* sorts the keys: with fewer than two keys, or the clamped target a key, it
\* is done at once; otherwise it takes the reference grid and goes on cell
\* by cell.
EnterEngine ==
    /\ tasks.read.at = "checked"
    /\ \E rd \in {tasks.read}, d \in {dicts[surfaces]} :
       \E shifts \in {sorted(DOMAIN d)} :
         tasks' = [tasks EXCEPT !.read =
           IF rd.req.op = "matrix"
           THEN [at |-> "rows", req |-> rd.req, snaps |-> rd.snaps, d |-> surfaces,
                 rows |-> << >>]
           ELSE IF \/ Len(shifts) < 2
                   \/ clip(rd.req.spot_move, shifts[1], shifts[Len(shifts)]) \in DOMAIN d
           THEN Done(rd.req, rd.snaps,
                     Outcome(compute_pnl(heap, d, rd.req.spot_move, "beta", BetaParams,
                                         ManualParams, "linear")))
           ELSE [at |-> "cells", req |-> rd.req, snaps |-> rd.snaps, d |-> surfaces,
                 shifts |-> shifts,
                 clamped |-> clip(rd.req.spot_move, shifts[1], shifts[Len(shifts)]),
                 ref |-> d[shifts[1]],
                 acc |-> << >>]]
    /\ UNCHANGED <<heap, dicts, surfaces, pc, call, result, orig, log>>

\* The grid interpolate_vega_grid returns over the cells `acc` (row by row)
\* and the axes of the reference grid.
GridOfCells(ref, spot_move, acc) ==
    LET shape == Shape(ref.values)
        values == [i \in 1..shape[1] |-> [j \in 1..shape[2] |->
                      acc[(i - 1) * shape[2] + j]]]
    IN [ref EXCEPT !.spot_shift = spot_move, !.values = values,
                   !.row_totals = SumAxis1(values), !.col_totals = SumAxis0(values),
                   !.total = SumAll(values)]

\* One turn of the loop over the cells: surfaces[s].values[i, j] is read for
\* every shift from the dict as it is now.  After the last cell the grid is
\* built and compute_pnl finishes on it.
InterpolateCell ==
    /\ tasks.read.at = "cells"
    /\ \E rd \in {tasks.read} :
       \E ref \in {Deref(heap, rd.ref)}, d \in {dicts[rd.d]} :
       \E shape \in {Shape(ref.values)} :
       \E i \in {(Len(rd.acc) \div shape[2]) + 1}, j \in {(Len(rd.acc) % shape[2]) + 1} :
       \E vals \in {[k \in 1..Len(rd.shifts) |-> heap.arrs[heap.objs[d[rd.shifts[k]]].values]]} :
         tasks' = [tasks EXCEPT !.read =
           IF shape[1] * shape[2] = 0
           THEN Done(rd.req, rd.snaps,
                     [kind |-> "pnl",
                      val |-> <<0, [a \in 1..shape[1] |-> << >>]>>])
           ELSE IF \E k \in 1..Len(rd.shifts) : ~HasCell(vals[k], i, j)
           THEN Done(rd.req, rd.snaps, [kind |-> "error", val |-> <<"IndexError">>])
           ELSE The({ IF Len(acc) < shape[1] * shape[2]
                      THEN [rd EXCEPT !.acc = acc]
                      ELSE Done(rd.req, rd.snaps,
                                Outcome([kind |-> "pnl",
                                         val |-> PnLResult(GridOfCells(ref, rd.req.spot_move,
                                                                       acc),
                                                           0, rd.req.spot_move, "beta",
                                                           BetaParams, ManualParams)]))
                      : acc \in {Append(rd.acc,
                                        interp_cell(rd.shifts,
                                                    [k \in 1..Len(rd.shifts) |-> vals[k][i][j]],
                                                    rd.clamped, "linear"))} })]
    /\ UNCHANGED <<heap, dicts, surfaces, pc, call, result, orig, log>>

\* One turn of the loop of compute_scenario_matrix over spot_moves: a
\* compute_pnl on the dict as it is now.
SweepRow ==
    /\ tasks.read.at = "rows"
    /\ \E rd \in {tasks.read} :
       \E row \in {BetaRow(heap, dicts[rd.d], rd.req.spot_moves[Len(rd.rows) + 1],
                           BetaParams)} :
         tasks' = [tasks EXCEPT !.read =
           IF row.kind = "error"
           THEN Done(rd.req, rd.snaps, [kind |-> "error", val |-> <<row.exc>>])
           ELSE IF Len(rd.rows) + 1 < Len(rd.req.spot_moves)
           THEN [rd EXCEPT !.rows = Append(@, row.val)]
           ELSE Done(rd.req, rd.snaps,
                     [kind |-> "matrix", val |-> DataFrame(Append(rd.rows, row.val))])]
    /\ UNCHANGED <<heap, dicts, surfaces, pc, call, result, orig, log>>

NextServer ==
    \/ Main
    \/ UploadBegin
    \/ UploadFile
    \/ UploadCommit
    \/ clear_surfaces
    \/ compute_pnl_endpoint
    \/ EnterEngine
    \/ InterpolateCell
    \/ SweepRow

SpecServer == InitServer /\ [][NextServer]_vars

\* ------------------------------------------------------------------ claims: interpolation

Store == dicts[surfaces]
Keys == DOMAIN Store
StoredRefs == {Store[k] : k \in Keys}
MinKey == CHOOSE k \in Keys : \A l \in Keys : k <= l
MaxKey == CHOOSE k \in Keys : \A l \in Keys : l <= k
\* The array and list objects of a VegaGrid object.
ArraysOf(h, ref) == {h.objs[ref][fld] : fld \in ArrayFields}
InterpolateReturned == pc = "returned" /\ call.op = "interpolate"

\* C1: with exactly one grid in the surfaces mapping, interpolate_vega_grid
\* returns for every requested move a copy of that grid: an object other than
\* the stored one, labelled with the requested move, with the stored values.
C1_SingleSurfaceCopy ==
    (InterpolateReturned /\ Cardinality(Keys) = 1) =>
        /\ result.kind = "grid"
        /\ result.ref \notin StoredRefs
        /\ Deref(heap, result.ref).spot_shift = call.spot_move
        /\ Deref(heap, result.ref).values = orig[MinKey].values

\* C2: with two or more surfaces, a request below the least or above the
\* greatest shift returns what a request for that boundary shift returns
\* (axes, matrix, totals), which is the boundary grid's own matrix: nothing
\* is extrapolated.
C2_Beyond == Cardinality(Keys) >= 2 /\ (call.spot_move < MinKey \/ call.spot_move > MaxKey)
C2_ClampedToBoundary ==
    (InterpolateReturned /\ C2_Beyond) =>
        LET b == IF call.spot_move < MinKey THEN MinKey ELSE MaxKey
            at == interpolate_vega_grid(heap, Store, b, call.method)
            got == Deref(heap, result.ref)
            want == Deref(at.h, at.ref)
        IN /\ result.kind = "grid" /\ at.kind = "grid"
           /\ got.moneyness = want.moneyness
           /\ got.expiries = want.expiries
           /\ got.values = want.values
           /\ got.row_totals = want.row_totals
           /\ got.col_totals = want.col_totals
           /\ got.total = want.total
           /\ got.values = orig[b].values
C2_Witness ==
    /\ InterpolateReturned /\ C2_Beyond /\ result.kind = "grid"
    /\ call.spot_move > MaxKey
    /\ orig[MinKey].values # orig[MaxKey].values

\* C3: with two or more surfaces and the clamped target equal to a shift key
\* k, the result is a deep copy of surfaces[k]: the same matrix, labelled with
\* the requested (unclamped) move, a new object sharing no array with a stored
\* grid, so that what the caller later writes into it leaves the stored grids
\* as they were.
C3_Clamped == Min(Max(call.spot_move, MinKey), MaxKey)
C3_Exact ==
    call.op = "interpolate" /\ Cardinality(Keys) >= 2 /\ C3_Clamped \in Keys
C3_ExactMatchDeepCopy ==
    /\ (pc = "returned" /\ C3_Exact) =>
          /\ result.kind = "grid"
          /\ Deref(heap, result.ref).values = orig[C3_Clamped].values
          /\ Deref(heap, result.ref).spot_shift = call.spot_move
          /\ result.ref \notin StoredRefs
          /\ \A r \in StoredRefs : ArraysOf(heap, r) \cap ArraysOf(heap, result.ref) = {}
    /\ (pc \in {"returned", "mutated"} /\ C3_Exact) =>
          \A k \in Keys : Deref(heap, Store[k]) = orig[k]
C3_Witness ==
    /\ pc = "mutated" /\ C3_Exact
    /\ call.spot_move # C3_Clamped
    /\ Deref(heap, result.ref).values # orig[C3_Clamped].values

\* ------------------------------------------------------------------ claims: P&L

RECURSIVE SumValues(_)
\* The sum of the values of a dict.
SumValues(d) ==
    IF DOMAIN d = {} THEN 0
    ELSE LET k == CHOOSE x \in DOMAIN d : TRUE
         IN d[k] + SumValues([x \in DOMAIN d \ {k} |-> d[x]])

PnlReturned == pc = "returned" /\ call.op = "compute_pnl" /\ result.kind = "pnl"

\* C4: for every PnLResult compute_pnl returns, total_pnl is the sum of the
\* pnl_by_expiry values, the sum of the pnl_by_bucket values and the sum of
\* the pnl_by_moneyness values, also for grids with two columns of one expiry
\* label or two rows of one moneyness.
C4_TotalsAgree ==
    PnlReturned =>
        /\ result.val.total_pnl = SumValues(result.val.pnl_by_expiry)
        /\ result.val.total_pnl = SumValues(result.val.pnl_by_bucket)
        /\ result.val.total_pnl = SumValues(result.val.pnl_by_moneyness)

\* C5: classify_expiry gives every expiry date one of the six labels, the
\* first in ascending order whose threshold is at least the day count: up to
\* 30 days (dates on or before the reference date included) 0-1M, up to 90
\* 1-3M, up to 180 3-6M, up to 365 6-12M, up to 730 1-2Y, from 731 on 2Y+.
C5_Buckets ==
    (pc = "returned" /\ call.op = "classify_expiry") =>
        LET days == call.expiry_str IN
        /\ result.val \in {"0-1M", "1-3M", "3-6M", "6-12M", "1-2Y", "2Y+"}
        /\ result.val = IF days <= 30 THEN "0-1M"
                        ELSE IF days <= 90 THEN "1-3M"
                        ELSE IF days <= 180 THEN "3-6M"
                        ELSE IF days <= 365 THEN "6-12M"
                        ELSE IF days <= 730 THEN "1-2Y"
                        ELSE "2Y+"
C5_Witness ==
    /\ pc = "returned" /\ call.op = "classify_expiry"
    /\ call.expiry_str = 730 /\ result.val = "1-2Y"

\* ------------------------------------------------------------------ claims: errors

\* What the parser raises when the spot shift is neither supplied nor to be
\* had from the file name.
ShiftUndetermined == parse_csv(NameNotes, None, TableA)

EmptyStoreCall ==
    /\ pc = "returned" /\ Keys = {}
    /\ \/ call.op \in {"interpolate", "compute_pnl"}
       \/ call.op = "compute_scenario_matrix" /\ call.spot_moves # Some(<< >>)

\* C8: interpolate_vega_grid, compute_pnl and compute_scenario_matrix on an
\* empty surfaces mapping fail, with an error of a kind other than the kind
\* the parser raises when it cannot determine the spot shift.
C8_EmptyStoreDistinct ==
    EmptyStoreCall =>
        /\ result.kind = "error"
        /\ ~ShiftUndetermined.ok
        /\ result.exc # ShiftUndetermined.exc

AxesDisagree ==
    \E k, l \in Keys : \/ orig[k].moneyness # orig[l].moneyness
                       \/ orig[k].expiries # orig[l].expiries

\* C9: when two or more surfaces given to interpolate_vega_grid disagree in
\* their moneyness or expiry axes, interpolating between them fails and
\* yields no grid.
C9_AxesChecked ==
    (InterpolateReturned /\ Cardinality(Keys) >= 2 /\ C3_Clamped \notin Keys
        /\ AxesDisagree) =>
        result.kind = "error"

\* ------------------------------------------------------------------ claims: scenario matrix

ManualMatrixReturned ==
    /\ pc = "returned" /\ call.op = "compute_scenario_matrix"
    /\ call.vol_mode = "manual" /\ result.kind = "matrix"
MovesOf(c) == IF c.spot_moves.some THEN c.spot_moves.v ELSE DefaultSpotMoves
OverridesOf(c) ==
    IF c.vol_changes_override.some THEN c.vol_changes_override.v ELSE DefaultVolOverrides
DistinctTags(ovs) ==
    \A a, b \in 1..Len(ovs) : SignedTag(ovs[a]) = SignedTag(ovs[b]) => a = b

\* C10: in manual mode compute_scenario_matrix gives one row per spot move,
\* and the cell of a spot move and a vol override dv is the total_pnl of
\* compute_pnl with the ManualParams whose atm_vol_change is dv and whose
\* skew_change, term_multiplier and volga_scale are the base manual_params'.
C10_BaseFieldsHeld ==
    (ManualMatrixReturned /\ DistinctTags(OverridesOf(call))) =>
        \A sms \in {MovesOf(call)}, ovs \in {OverridesOf(call)} :
            /\ Len(result.val) = Len(sms)
            /\ \A k \in 1..Len(sms) :
                 /\ result.val[k].spot_move = sms[k]
                 /\ \A o \in 1..Len(ovs) :
                      \A want \in {compute_pnl(heap, Store, sms[k], "manual", BetaParams,
                                               OverrideParamsHeld(ovs[o], call.manual_params),
                                               "linear")} :
                         /\ want.kind = "pnl"
                         /\ result.val[k].vol[SignedTag(ovs[o])] = want.val.total_pnl

\* ------------------------------------------------------------------ claims: surface store

\* The writes since the last clear (since the start when there is none).
SinceClear ==
    {k \in 1..Len(log) : \A c \in k..Len(log) : log[c].op # "clear"}
Supplied == UNION {DOMAIN log[k].d : k \in SinceClear}
LatestFor(key) ==
    log[CHOOSE k \in SinceClear :
           /\ key \in DOMAIN log[k].d
           /\ \A l \in SinceClear : key \in DOMAIN log[l].d => l <= k].d[key]

\* C6: after any sequence of start-up load, uploads and clears the keys of
\* the store are the shifts loaded or uploaded since the last clear (or the
\* start), each key holds the grid of the latest write that supplied it (so
\* that a key an upload does not name keeps its grid), and right after a
\* clear the store is empty.
C6_StoreFollowsWrites ==
    /\ Keys = Supplied
    /\ \A key \in Keys : Store[key] = LatestFor(key)
    /\ (Len(log) > 0 /\ log[Len(log)].op = "clear") => Keys = {}
C6_Witness ==
    /\ Len(log) >= 2
    /\ log[Len(log)].op = "upload"
    /\ \E key \in DOMAIN log[Len(log)].d :
         \E k \in SinceClear : k < Len(log) /\ key \in DOMAIN log[k].d
                                 /\ log[k].d[key] # Store[key]
    /\ Keys \ DOMAIN log[Len(log)].d # {}

\* What a computation request returns on the store content `s` when no
\* write falls into it.
Answer(h, s, req) ==
    IF DOMAIN s = {} THEN [kind |-> "http400", val |-> << >>]
    ELSE IF req.op = "pnl"
    THEN Outcome(compute_pnl(h, s, req.spot_move, "beta", BetaParams, ManualParams,
                             "linear"))
    ELSE Outcome(compute_scenario_matrix(h, s, Some(req.spot_moves), "beta", BetaParams,
                                         ManualParams, None))

\* C7: a compute_pnl or compute_scenario_matrix request that overlaps an
\* upload or a clear computes every cell from one content of the store, the
\* one before a write or the one after it: its result is the result on one
\* of the contents the store had while the request ran.
C7_OneSnapshot ==
    (tasks.read.at = "done" /\ tasks.read.kind \in {"pnl", "matrix"}) =>
        \E s \in tasks.read.snaps :
            \A a \in {Answer(heap, s, tasks.read.req)} :
                a.kind = tasks.read.kind /\ a.val = tasks.read.val

\* ------------------------------------------------------------------ claims: beta sweep

BetaMatrixReturned ==
    /\ pc = "returned" /\ call.op = "compute_scenario_matrix"
    /\ call.vol_mode = "beta" /\ result.kind = "matrix"

\* C11: in beta mode compute_scenario_matrix returns one row per spot move,
\* in the order given (31 rows for the default sweep of -7.5% to 7.5% in
\* steps of 0.5%); the total_pnl of a row and each of its pnl_<bucket>
\* values are those of a compute_pnl call of its own at the row's spot move
\* with the same beta parameters, every column is a bucket of an expiry of a
\* stored surface, and a row holds a value in exactly the buckets its
\* compute_pnl call yields.
C11_BetaRows ==
    BetaMatrixReturned =>
        \A sms \in {MovesOf(call)} :
            /\ Len(result.val) = Len(sms)
            /\ ~call.spot_moves.some =>
                  /\ Len(result.val) = 31
                  /\ \A k \in 1..31 : result.val[k].spot_move = k - 16
            /\ \A k \in 1..Len(sms) :
                 \A want \in {compute_pnl(heap, Store, sms[k], "beta", call.beta_params,
                                          ManualParams, "linear")} :
                    /\ want.kind = "pnl"
                    /\ result.val[k].spot_move = sms[k]
                    /\ result.val[k].total_pnl = want.val.total_pnl
                    /\ \A b \in DOMAIN result.val[k].buckets :
                         /\ \E key \in Keys : \E j \in 1..Len(orig[key].expiries) :
                              b = classify_expiry(orig[key].expiries[j])
                         /\ result.val[k].buckets[b] =
                              IF b \in DOMAIN want.val.pnl_by_bucket
                              THEN Some(want.val.pnl_by_bucket[b]) ELSE None
                    /\ DOMAIN want.val.pnl_by_bucket \subseteq DOMAIN result.val[k].buckets
C11_Witness ==
    /\ BetaMatrixReturned
    /\ ~call.spot_moves.some
    /\ Cardinality(Keys) >= 2
    /\ call.beta_params # BetaParams
    /\ \E k, l \in 1..Len(result.val) : result.val[k].total_pnl # result.val[l].total_pnl
    /\ \E b \in DOMAIN result.val[1].buckets : result.val[1].buckets[b].some

\* ------------------------------------------------------------------ claims: totals

\* C12: every VegaGrid interpolate_vega_grid returns, on the single-surface
\* path, the exact-match path and the per-cell path, has row_totals, col_totals
\* and total that are the sums of the rows, of the columns and of all cells of
\* the matrix it holds, also when the stored grids carry totals that disagree
\* with their cells.
C12_TotalsRecomputed ==
    (InterpolateReturned /\ result.kind = "grid") =>
        \A g \in {Deref(heap, result.ref)} :
            /\ g.row_totals = SumAxis1(g.values)
            /\ g.col_totals = SumAxis0(g.values)
            /\ g.total = SumAll(g.values)

\* ------------------------------------------------------------------ claims: vol model

\* C13: with the default spot_vol_beta = -0.40 and convexity = 2.0 the
\* magnitude of atm_change = spot_vol_beta*dS + convexity*dS*dS*0.01 does not
\* decrease as |dS| grows: for two moves of whole percentage points of the
\* same sign with |dS1| <= |dS2|, |atm_change(dS1)| <= |atm_change(dS2)|.
C13_AtmMonotone ==
    (pc = "returned" /\ call.op = "beta_vol_change") =>
        \A pct1 \in (0 - MaxPct)..MaxPct :
            (pct1 * call.pct > 0 /\ Abs(pct1) <= Abs(call.pct)) =>
                Abs(atm_change(pct1 * Q, BetaParams)) <= Abs(result.atm_change)

\* ------------------------------------------------------------------ claims: failed upload

\* The files of a request among which one with a shift in its name does not
\* parse, and the shifts the names of the files hold.
Failing(files) ==
    \E i \in 1..Len(files) :
        detect_shift_from_filename(files[i].name).some /\ ~files[i].table.numeric
Inferable(files) ==
    {detect_shift_from_filename(files[i].name).v :
        i \in {k \in 1..Len(files) : detect_shift_from_filename(files[k].name).some}}
GridsOf(d) == {d[k] : k \in DOMAIN d}

\* C14: an upload with a file whose shift is in its name and which does not
\* parse ends in an error, and no other upload does; no grid it had parsed
\* before the error is in the store (or in any dict the store has been), and
\* the store stays what the start-up load, the uploads that succeeded and the
\* clears made it.  A file without a shift in its name is passed over without
\* an error: an upload that succeeds writes the shifts of its other files and
\* no other key.
C14_FailedUploadWritesNothing ==
    /\ \A e \in tasks.ended :
         /\ (e.status = 400) <=> Failing(e.files)
         /\ e.status = 400 =>
               \A k \in 1..Len(dicts) : GridsOf(dicts[k]) \cap GridsOf(e.loaded) = {}
         /\ e.status = 200 => DOMAIN e.loaded = Inferable(e.files)
    /\ C6_StoreFollowsWrites
C14_Witness ==
    /\ \E e \in tasks.ended : e.status = 400 /\ DOMAIN e.loaded # {}
    /\ \E e \in tasks.ended :
         /\ e.status = 200
         /\ \E i \in 1..Len(e.files) : ~detect_shift_from_filename(e.files[i].name).some
    /\ Keys # {}
    /\ tasks.uploads = << >>

====
